---- MODULE Spec2Model ----
(***************************************************************************)
(* Game of Life notebook: World, PatchWorld, WorldRunner, PatchGenerator.  *)
(* Arrays are numpy arrays: a shape and one integer per index pair, with   *)
(* 0-based indices as in the Python source.  Array objects live in a heap  *)
(* so that two attributes naming the same array are seen as such.          *)
(***************************************************************************)
EXTENDS Integers, Sequences, FiniteSets, Bags, TLC

(***************************************************************************)
(* heap, world    the arrays of a World and the object's two attributes    *)
(*                _world and _tmp_world, each a reference into the heap    *)
(* runner         the WorldRunner on that world: max_gen, early_stopping,  *)
(*                cycle_length, hist                                       *)
(* it, pc         the loop variable of run() and where the call stands:    *)
(*                "constructed", "running", "done"                         *)
(* twin_*         a second World and WorldRunner, built from equal cells   *)
(* generator      the PatchGenerator: size, patch_size, patch_idx          *)
(* gen_pc         "constructed", "ValueError", "iterating", "StopIteration"*)
(* yielded        the cells of the worlds next() returned, in order        *)
(* pw_n, pw_patch the arguments of PatchWorld(n, patch)                    *)
(* pw_world       the PatchWorld constructed: its attributes and heap      *)
(* pw_pc          "arguments", then "constructed"                          *)
(* nb_call        the last call world.nr_neignbours(i, j): its arguments,  *)
(*                the index pairs it read and the number it returned       *)
(* cycle_stats    the locals of compute_cycle_count: max_gen, cycle_count, *)
(*                nr_worlds, and what was seen of each world after its run  *)
(* avg_stats      the locals of compute_avg_live_cels: max_gen, nr_alive,  *)
(*                nr_worlds, generation, and the value returned            *)
(* expo           the locals of naive_exponentiation or                    *)
(*                binary_exponentiation and the matrix products made       *)
(* cannon         the locals of compute_range: the integrator's success    *)
(*                flag, the samples x and y, the value returned            *)
(* io             the I/O notebook: the next cell, the files that exist    *)
(*                and their contents, loaded_data                          *)
(***************************************************************************)
VARIABLES heap, world, runner, it, pc,
          twin_heap, twin_world, twin_runner, twin_it, twin_pc,
          generator, gen_pc, yielded,
          pw_n, pw_patch, pw_world, pw_pc,
          nb_call,
          cycle_stats, avg_stats,
          expo, cannon, io

vars == <<heap, world, runner, it, pc,
          twin_heap, twin_world, twin_runner, twin_it, twin_pc,
          generator, gen_pc, yielded,
          pw_n, pw_patch, pw_world, pw_pc,
          nb_call,
          cycle_stats, avg_stats,
          expo, cannon, io>>

life_vars == <<heap, world, runner, it, pc>>
twin_vars == <<twin_heap, twin_world, twin_runner, twin_it, twin_pc>>
generator_vars == <<generator, gen_pc, yielded>>
patch_vars == <<pw_n, pw_patch, pw_world, pw_pc>>
call_vars == <<nb_call>>
stats_vars == <<cycle_stats, avg_stats>>
notebook_vars == <<expo, cannon, io>>

(***************************************************************************)
(* Bounds of the model.                                                    *)
(***************************************************************************)
\* largest number of cells (rows times columns) of an initial world
MaxCells == 9
\* largest number of live cells of an initial world
MaxAlive == 3
\* largest max_gen given to a WorldRunner
MaxGen == 4
\* largest world size given to PatchWorld and PatchGenerator
MaxSize == 5
\* largest patch side given to PatchWorld and PatchGenerator
MaxPatch == 2
\* the largest exponent n of the matrix power
MaxExponent == 13
\* the most integration steps of one trajectory
MaxSteps == 4

\* Python's None, as the value of _cycle_length: no cycle length (they
\* are all >= 1) equals it
None == -1
\* the value of a variable whose object the specification does not use
Absent == <<>>
\* contents np.empty_like may leave in every element of an int8 array
Uninitialized == {-128, 1}

(***************************************************************************)
(* numpy arrays                                                            *)
(***************************************************************************)
\* the index pairs of an array of shape (r, c)
Idx(r, c) == (0 .. r - 1) \X (0 .. c - 1)

\* an array of shape (r, c) whose element [i, j] is f[<<i, j>>]; the
\* elements are stored when the array is made (f @@ <<>> is f, tabulated)
Array(r, c, f) == [shape |-> <<r, c>>, at |-> f @@ <<>>]

\* a[i, j]
get(a, i, j) == a.at[<<i, j>>]

\* a[i, j] = v
set(a, i, j, v) == [a EXCEPT !.at[<<i, j>>] = v]

\* np.ones((r, c)) in the place of np.zeros
ones(r, c) == Array(r, c, [p \in Idx(r, c) |-> 1])

\* np.zeros((r, c))
zeros(r, c) == Array(r, c, [p \in Idx(r, c) |-> 0])

\* np.empty_like(a): an array of a's shape whose elements are whatever
\* the allocator left there
empty_like(a, g) == Array(a.shape[1], a.shape[2], [p \in DOMAIN a.at |-> g])

\* ndarray.astype(np.int8) on integral values: wraps to 8 bits
astype_int8(a) ==
    Array(a.shape[1], a.shape[2],
          [p \in DOMAIN a.at |-> ((a.at[p] + 128) % 256) - 128])

\* np.sum(a)
RECURSIVE SumOver(_, _)
SumOver(f, S) ==
    IF S = {} THEN 0
    ELSE LET p == CHOOSE q \in S : TRUE
         IN f[p] + SumOver(f, S \ {p})

np_sum(a) == SumOver(a.at, DOMAIN a.at)

\* every 0/1 array of shape (r, c) with at most n ones
BinaryArrays(r, c, n) ==
    {Array(r, c, f) : f \in {g \in [Idx(r, c) -> {0, 1}] :
                               Cardinality({p \in Idx(r, c) : g[p] = 1}) <= n}}

(***************************************************************************)
(* class World                                                             *)
(***************************************************************************)
\* the references of the two arrays a World allocates
WorldRef == 1
TmpRef == 2

\* World.__init__(cells): _world is a copy of the cells as int8, _tmp_world
\* a second, uninitialised array of the same shape.  The object holds the
\* two references; the heap holds the two arrays.
WorldInit(cells, g) ==
    [self |-> [world |-> WorldRef, tmp_world |-> TmpRef],
     heap |-> (WorldRef :> astype_int8(cells))
              @@ (TmpRef :> empty_like(astype_int8(cells), g))]

\* World.shape
shape(h, self) == h[self.world].shape

\* World.nr_alive
nr_alive(h, self) == np_sum(h[self.world])

\* World.cells: a copy of the array, a value of its own
cells(h, self) == h[self.world]

\* World.is_alive(i, j)
is_alive(h, self, i, j) == get(h[self.world], i, j) = 1

\* the index pairs read when left wraps around the number of rows
neighbour_indices_left_by_rows(h, self, i, j) ==
    LET up == (i + shape(h, self)[1] - 1) % shape(h, self)[1]
        down == (i + 1) % shape(h, self)[1]
        left == (j + shape(h, self)[1] - 1) % shape(h, self)[2]
        right == (j + 1) % shape(h, self)[2]
    IN << <<up, left>>, <<up, j>>, <<up, right>>,
          <<i, left>>, <<i, right>>,
          <<down, left>>, <<down, j>>, <<down, right>> >>

\* the eight index pairs World.nr_neignbours(i, j) reads, in the order read
neighbour_indices(h, self, i, j) ==
    LET up == (i + shape(h, self)[1] - 1) % shape(h, self)[1]
        down == (i + 1) % shape(h, self)[1]
        left == (j + shape(h, self)[2] - 1) % shape(h, self)[2]
        right == (j + 1) % shape(h, self)[2]
    IN << <<up, left>>, <<up, j>>, <<up, right>>,
          <<i, left>>, <<i, right>>,
          <<down, left>>, <<down, j>>, <<down, right>> >>

\* World.nr_neignbours(i, j)
sum_at(w, nb) ==
    w.at[nb[1]] + w.at[nb[2]] + w.at[nb[3]] + w.at[nb[4]] + w.at[nb[5]]
    + w.at[nb[6]] + w.at[nb[7]] + w.at[nb[8]]

nr_neignbours(h, self, i, j) ==
    sum_at(h[self.world], neighbour_indices(h, self, i, j))

\* the value World.next_generation stores in _tmp_world[i, j]
rule(alive, nr_nb) ==
    IF alive
    THEN (IF nr_nb = 2 \/ nr_nb = 3 THEN 1 ELSE 0)
    ELSE (IF nr_nb = 3 THEN 1 ELSE 0)

next_cell(h, self, i, j) ==
    rule(is_alive(h, self, i, j), nr_neignbours(h, self, i, j))

\* the two nested loops of World.next_generation, from cell number k on
\* (row-major): each store goes to the array _tmp_world names, each read
\* to the array _world names
RECURSIVE next_generation_loop(_, _, _)

\* a loop that stores only the cells whose value changes
next_generation_loop_changed_only(h, self, k) ==
    LET rows == shape(h, self)[1]
        cols == shape(h, self)[2]
    IN IF k >= rows * cols THEN h
       ELSE LET i == k \div cols
                j == k % cols
                v == next_cell(h, self, i, j)
            IN next_generation_loop(
                   IF v = get(h[self.world], i, j) THEN h
                   ELSE [h EXCEPT ![self.tmp_world] = set(@, i, j, v)],
                   self, k + 1)

next_generation_loop(h, self, k) ==
    LET rows == shape(h, self)[1]
        cols == shape(h, self)[2]
    IN IF k >= rows * cols THEN h
       ELSE LET i == k \div cols
                j == k % cols
                v == next_cell(h, self, i, j)
            IN next_generation_loop(
                   [h EXCEPT ![self.tmp_world] = set(@, i, j, v)], self, k + 1)

\* the closing assignment of World.next_generation: _world = _tmp_world
rebind_world(self) == [self EXCEPT !.world = self.tmp_world]

\* an array no attribute names any more is freed
collect(h, self) ==
    (self.world :> h[self.world]) @@ (self.tmp_world :> h[self.tmp_world])

\* World.next_generation()
next_generation(h, self) ==
    LET h2 == next_generation_loop(h, self, 0)
        self2 == rebind_world(self)
    IN [self |-> self2, heap |-> collect(h2, self2)]

(***************************************************************************)
(* class PatchWorld(World)                                                 *)
(***************************************************************************)
\* world[0:patch.shape[0], 0:patch.shape[1]] = patch, for a patch that
\* fits in the world
assign_slice(a, patch) ==
    Array(a.shape[1], a.shape[2],
          [p \in DOMAIN a.at |->
              IF p[1] < patch.shape[1] /\ p[2] < patch.shape[2]
              THEN patch.at[p] ELSE a.at[p]])

\* PatchWorld.__init__(n, patch)
PatchWorldInit(n, patch, g) == WorldInit(assign_slice(zeros(n, n), patch), g)

(***************************************************************************)
(* class WorldRunner                                                       *)
(***************************************************************************)
\* WorldRunner.__init__(world, max_gen, early_stopping)
WorldRunnerInit(h, w, max_gen, early_stopping) ==
    [max_gen |-> max_gen,
     early_stopping |-> early_stopping,
     cycle_length |-> None,
     hist |-> <<cells(h, w)>>]

\* WorldRunner.nr_generations
nr_generations(r) == Len(r.hist) - 1

\* WorldRunner.has_cycle()
has_cycle(r) == r.cycle_length # None

\* WorldRunner.cycle_length
cycle_length(r) == r.cycle_length

\* hist[gen] for a negative Python index gen
py_index(hist, gen) == hist[Len(hist) + gen + 1]

\* the bounds of the scan of _has_cycle: range(-2, -len(hist), -1)
scan_start == -2
scan_continues(hist, gen) == gen > -Len(hist)

\* the cycle length taken as the distance from the end of the list
length_at_from_end(gen) == -gen

\* the cycle length _has_cycle stores for a match at index gen
length_at(gen) == -gen - 1

\* the loop of WorldRunner._has_cycle from index gen on: the cycle length
\* it stores on the first match, None when the range is exhausted
RECURSIVE has_cycle_scan(_, _)
has_cycle_scan(hist, gen) ==
    IF ~scan_continues(hist, gen) THEN None
    ELSE IF py_index(hist, -1) = py_index(hist, gen) THEN length_at(gen)
    ELSE has_cycle_scan(hist, gen - 1)

\* WorldRunner._has_cycle(): the value returned and the runner afterwards
has_cycle_result(r, found) ==
    [result |-> found # None,
     runner |-> IF found # None THEN [r EXCEPT !.cycle_length = found] ELSE r]

_has_cycle(r) == has_cycle_result(r, has_cycle_scan(r.hist, scan_start))

\* a loop over range(0, self.max_gen + 1), counted from 1
loop_continues_from_zero(r, i) == i < r.max_gen + 2

\* the loop of WorldRunner.run: for _ in range(1, self.max_gen + 1)
loop_continues(r, i) == i < r.max_gen + 1

\* the break of WorldRunner.run
loop_breaks(r, found) == found /\ r.early_stopping

\* the rest of an iteration of the loop of WorldRunner.run, once
\* _has_cycle() has returned hc
run_break(ng, hc) ==
    [heap |-> ng.heap, world |-> ng.self, runner |-> hc.runner,
     break |-> loop_breaks(hc.runner, hc.result)]

\* the rest of an iteration of the loop of WorldRunner.run, once
\* next_generation() has returned ng
run_append(ng, r) ==
    run_break(ng, _has_cycle([r EXCEPT !.hist = Append(r.hist, cells(ng.heap, ng.self))]))

\* one iteration of the loop of WorldRunner.run on world w in heap h
run_iteration(h, w, r) == run_append(next_generation(h, w), r)

\* WorldRunner.run() from iteration i on, to its return: the heap, the
\* world and the runner when run() returns
RECURSIVE run_loop(_, _, _, _)
run_loop(h, w, r, i) ==
    IF ~loop_continues(r, i)
    THEN [heap |-> h, world |-> w, runner |-> r]
    ELSE LET res == run_iteration(h, w, r)
         IN IF res.break
            THEN [heap |-> res.heap, world |-> res.world, runner |-> res.runner]
            ELSE run_loop(res.heap, res.world, res.runner, i + 1)

\* WorldRunner.run()
run(h, w, r) == run_loop(h, w, r, 1)

(***************************************************************************)
(* class PatchGenerator                                                    *)
(***************************************************************************)
\* 2**n
RECURSIVE pow2(_)
pow2(n) == IF n = 0 THEN 1 ELSE 2 * pow2(n - 1)

\* 1 << n
shift_left_one(n) == pow2(n)

\* a & b for non-negative integers, bit by bit
RECURSIVE bit_and(_, _)
bit_and(a, b) ==
    IF a = 0 \/ b = 0 THEN 0
    ELSE (a % 2) * (b % 2) + 2 * bit_and(a \div 2, b \div 2)

\* a test that also rejects a patch as large as the world
size_check_rejects_equal(size, patch_size) == size <= patch_size

\* the test of PatchGenerator.__init__: if size < patch_size
size_check(size, patch_size) == size < patch_size

\* PatchGenerator(size, patch_size); when the constructor raises, no object
\* exists and the record keeps only the arguments of the failed call
PatchGeneratorInit(size, patch_size) ==
    IF size_check(size, patch_size)
    THEN [raised |-> "ValueError", size |-> size, patch_size |-> patch_size]
    ELSE [raised |-> "no", size |-> size, patch_size |-> patch_size,
          patch_idx |-> None]

\* PatchGenerator.__iter__()
generator_iter(gen) == [gen EXCEPT !.patch_idx = 0]

\* the bit number without the row stride
patch_bit_no_stride(gen, i, j) == i + j

\* the bit of _patch_idx that _create_patch tests for element [i, j]
patch_bit(gen, i, j) == i * gen.patch_size + j

\* PatchGenerator._create_patch(): every element of the np.empty array is
\* assigned
_create_patch(gen) ==
    Array(gen.patch_size, gen.patch_size,
          [p \in Idx(gen.patch_size, gen.patch_size) |->
              IF bit_and(gen.patch_idx, shift_left_one(patch_bit(gen, p[1], p[2]))) # 0
              THEN 1 ELSE 0])

\* the test of PatchGenerator.__next__ that raises StopIteration
generator_exhausted(gen) == gen.patch_idx >= pow2(gen.patch_size * gen.patch_size)

\* PatchGenerator.__next__() when it returns: the world and the generator
generator_next(gen, g) ==
    [world |-> PatchWorldInit(gen.size, _create_patch(gen), g),
     generator |-> [gen EXCEPT !.patch_idx = gen.patch_idx + 1]]

(***************************************************************************)
(* One World and the WorldRunner constructed on it; run() is called once.  *)
(***************************************************************************)
\* the cell arrays a World is constructed from
InitialShapes ==
    {sh \in (1 .. MaxCells) \X (1 .. MaxCells) : sh[1] * sh[2] <= MaxCells}

InitialCells ==
    UNION {BinaryArrays(sh[1], sh[2], MaxAlive) : sh \in InitialShapes}

NoTwin ==
    /\ twin_heap = Absent /\ twin_world = Absent /\ twin_runner = Absent
    /\ twin_it = 0 /\ twin_pc = "absent"

NoGenerator == generator = Absent /\ gen_pc = "absent" /\ yielded = <<>>

NoPatchWorld ==
    pw_n = 0 /\ pw_patch = Absent /\ pw_world = Absent /\ pw_pc = "absent"

NoCall == nb_call = [made |-> FALSE]

NoStats == cycle_stats = Absent /\ avg_stats = Absent

NoNotebooks == expo = Absent /\ cannon = Absent /\ io = Absent

\* world = World(cells); runner = WorldRunner(world, max_gen, early_stopping)
InitLife ==
    \E c0 \in InitialCells, g \in Uninitialized,
       max_gen \in 0 .. MaxGen, early_stopping \in BOOLEAN :
        LET w == WorldInit(c0, g)
        IN /\ heap = w.heap
           /\ world = w.self
           /\ runner = WorldRunnerInit(w.heap, w.self, max_gen, early_stopping)
           /\ it = 1
           /\ pc = "constructed"

Init == InitLife /\ NoTwin /\ NoGenerator /\ NoPatchWorld /\ NoCall /\ NoStats /\ NoNotebooks

\* runner.run(): one iteration of its loop
RunIteration ==
    /\ pc \in {"constructed", "running"}
    /\ loop_continues(runner, it)
    /\ \E res \in {run_iteration(heap, world, runner)} :
          /\ heap' = res.heap
          /\ world' = res.world
          /\ runner' = res.runner
          /\ it' = IF res.break THEN it ELSE it + 1
          /\ pc' = IF res.break THEN "done" ELSE "running"
    /\ UNCHANGED <<twin_vars, generator_vars, patch_vars, call_vars, stats_vars, notebook_vars>>

\* runner.run(): the range is exhausted and run() returns
RunReturn ==
    /\ pc \in {"constructed", "running"}
    /\ ~loop_continues(runner, it)
    /\ pc' = "done"
    /\ UNCHANGED <<heap, world, runner, it, twin_vars, generator_vars, patch_vars,
                   call_vars, stats_vars, notebook_vars>>

Next == RunIteration \/ RunReturn

Spec == Init /\ [][Next]_vars

(***************************************************************************)
(* One World used directly: world.next_generation() and                    *)
(* world.nr_neignbours(i, j), called in any order and any number of times. *)
(***************************************************************************)
NoRunner == runner = Absent /\ it = 0 /\ pc = "absent"

\* world = World(cells)
InitWorld ==
    /\ \E c0 \in InitialCells, g \in Uninitialized :
          LET w == WorldInit(c0, g)
          IN heap = w.heap /\ world = w.self
    /\ NoRunner /\ NoTwin /\ NoGenerator /\ NoPatchWorld /\ NoCall /\ NoStats /\ NoNotebooks

\* world.next_generation()
WorldNextGeneration ==
    /\ \E ng \in {next_generation(heap, world)} :
          heap' = ng.heap /\ world' = ng.self
    /\ nb_call' = [made |-> FALSE]
    /\ UNCHANGED <<runner, it, pc, twin_vars, generator_vars, patch_vars,
                   stats_vars, notebook_vars>>

\* world.nr_neignbours(i, j)
WorldNrNeignbours ==
    /\ ~nb_call.made
    /\ \E p \in Idx(shape(heap, world)[1], shape(heap, world)[2]) :
          nb_call' = [made |-> TRUE, i |-> p[1], j |-> p[2],
                      indices |-> neighbour_indices(heap, world, p[1], p[2]),
                      result |-> nr_neignbours(heap, world, p[1], p[2])]
    /\ UNCHANGED <<life_vars, twin_vars, generator_vars, patch_vars, stats_vars, notebook_vars>>

NextWorld == WorldNextGeneration \/ WorldNrNeignbours

SpecWorld == InitWorld /\ [][NextWorld]_vars

(***************************************************************************)
(* Two Worlds constructed from equal cells, each with its own WorldRunner  *)
(* of the same max_gen and early_stopping; the two run() calls advance     *)
(* side by side, one loop iteration each per step.  The two _tmp_world     *)
(* arrays start with contents of their own.                                *)
(***************************************************************************)
InitTwin ==
    /\ InitLife
    /\ \E g \in Uninitialized :
          LET w == WorldInit(py_index(runner.hist, -1), g)
          IN /\ twin_heap = w.heap
             /\ twin_world = w.self
             /\ twin_runner = WorldRunnerInit(w.heap, w.self, runner.max_gen,
                                              runner.early_stopping)
             /\ twin_it = 1
             /\ twin_pc = "constructed"
    /\ NoGenerator /\ NoPatchWorld /\ NoCall /\ NoStats /\ NoNotebooks

\* one loop iteration of each of the two run() calls
TwinRunIteration ==
    /\ pc \in {"constructed", "running"}
    /\ twin_pc \in {"constructed", "running"}
    /\ loop_continues(runner, it)
    /\ loop_continues(twin_runner, twin_it)
    /\ \E res \in {run_iteration(heap, world, runner)},
          tres \in {run_iteration(twin_heap, twin_world, twin_runner)} :
          /\ heap' = res.heap
          /\ world' = res.world
          /\ runner' = res.runner
          /\ it' = IF res.break THEN it ELSE it + 1
          /\ pc' = IF res.break THEN "done" ELSE "running"
          /\ twin_heap' = tres.heap
          /\ twin_world' = tres.world
          /\ twin_runner' = tres.runner
          /\ twin_it' = IF tres.break THEN twin_it ELSE twin_it + 1
          /\ twin_pc' = IF tres.break THEN "done" ELSE "running"
    /\ UNCHANGED <<generator_vars, patch_vars, call_vars, stats_vars, notebook_vars>>

\* both ranges are exhausted and both run() calls return
TwinRunReturn ==
    /\ pc \in {"constructed", "running"}
    /\ twin_pc \in {"constructed", "running"}
    /\ ~loop_continues(runner, it)
    /\ ~loop_continues(twin_runner, twin_it)
    /\ pc' = "done"
    /\ twin_pc' = "done"
    /\ UNCHANGED <<heap, world, runner, it, twin_heap, twin_world, twin_runner,
                   twin_it, generator_vars, patch_vars, call_vars, stats_vars, notebook_vars>>

NextTwin == TwinRunIteration \/ TwinRunReturn

SpecTwin == InitTwin /\ [][NextTwin]_vars

(***************************************************************************)
(* PatchWorld(n, patch) for a patch that fits in the world.                *)
(***************************************************************************)
NoLife ==
    /\ heap = Absent /\ world = Absent /\ runner = Absent
    /\ it = 0 /\ pc = "absent"

InitPatchWorld ==
    /\ \E n \in 0 .. MaxSize :
          \E p0 \in 0 .. (IF n < MaxPatch THEN n ELSE MaxPatch),
             p1 \in 0 .. (IF n < MaxPatch THEN n ELSE MaxPatch) :
              /\ pw_n = n
              /\ pw_patch \in BinaryArrays(p0, p1, p0 * p1)
    /\ pw_world = Absent
    /\ pw_pc = "arguments"
    /\ NoLife /\ NoTwin /\ NoGenerator /\ NoCall /\ NoStats /\ NoNotebooks

\* world = PatchWorld(n, patch)
NewPatchWorld ==
    /\ pw_pc = "arguments"
    /\ \E g \in Uninitialized : pw_world' = PatchWorldInit(pw_n, pw_patch, g)
    /\ pw_pc' = "constructed"
    /\ UNCHANGED <<pw_n, pw_patch, life_vars, twin_vars, generator_vars, call_vars, stats_vars, notebook_vars>>

NextPatchWorld == NewPatchWorld

SpecPatchWorld == InitPatchWorld /\ [][NextPatchWorld]_vars

(***************************************************************************)
(* for world in PatchGenerator(size, patch_size): the constructor, then    *)
(* iter() once and next() until it raises StopIteration.  yielded holds    *)
(* the cells of the worlds returned so far.                                *)
(***************************************************************************)
InitGenerator ==
    /\ \E size \in 0 .. MaxSize, patch_size \in 0 .. MaxPatch :
          /\ generator = PatchGeneratorInit(size, patch_size)
          /\ gen_pc = IF generator.raised = "no" THEN "constructed"
                      ELSE generator.raised
    /\ yielded = <<>>
    /\ NoLife /\ NoTwin /\ NoPatchWorld /\ NoCall /\ NoStats /\ NoNotebooks

\* iter(generator)
GeneratorIter ==
    /\ gen_pc = "constructed"
    /\ generator' = generator_iter(generator)
    /\ gen_pc' = "iterating"
    /\ UNCHANGED <<yielded, life_vars, twin_vars, patch_vars, call_vars, stats_vars, notebook_vars>>

\* next(generator)
GeneratorNext ==
    /\ gen_pc = "iterating"
    /\ IF generator_exhausted(generator)
       THEN /\ gen_pc' = "StopIteration"
            /\ UNCHANGED <<generator, yielded>>
       ELSE \E g \in Uninitialized :
              \E res \in {generator_next(generator, g)} :
                /\ generator' = res.generator
                /\ yielded' = Append(yielded, cells(res.world.heap, res.world.self))
                /\ gen_pc' = "iterating"
    /\ UNCHANGED <<life_vars, twin_vars, patch_vars, call_vars, stats_vars, notebook_vars>>

NextGenerator == GeneratorIter \/ GeneratorNext

SpecGenerator == InitGenerator /\ [][NextGenerator]_vars

(***************************************************************************)
(* compute_cycle_count(PatchGenerator(size, patch_size), max_gen)          *)
(* A collections.Counter is a bag of keys; the keys are <<"dead">>,        *)
(* <<"no cycle">> and <<"cycle", n>> for the integer key n.                *)
(***************************************************************************)
DeadKey == <<"dead">>
NoCycleKey == <<"no cycle">>
CycleKey(n) == <<"cycle", n>>

\* a choice of key that asks the runner before it looks at the live cells
count_key_cycle_first(alive, r) ==
    IF has_cycle(r) THEN CycleKey(cycle_length(r))
    ELSE IF alive > 0 THEN NoCycleKey
    ELSE DeadKey

\* the key compute_cycle_count increments for a world with `alive` live
\* cells whose runner is r
count_key(alive, r) ==
    IF alive > 0
    THEN IF has_cycle(r) THEN CycleKey(cycle_length(r)) ELSE NoCycleKey
    ELSE DeadKey

\* cycle_count[key] += 1
counter_increment(counter, key) == counter (+) SetToBag({key})

\* the locals of compute_cycle_count before its loop
cycle_count_begin(max_gen) ==
    [max_gen |-> max_gen, cycle_count |-> EmptyBag, nr_worlds |-> 0,
     seen |-> <<>>, returned |-> FALSE]

\* the body of the loop of compute_cycle_count, once world_runner.run()
\* has returned ran; seen keeps, for every world, its number of live
\* cells and its runner's cycle length at that moment
cycle_count_body(st, ran) ==
    [st EXCEPT
        !.nr_worlds = st.nr_worlds + 1,
        !.cycle_count = counter_increment(st.cycle_count,
                            count_key(nr_alive(ran.heap, ran.world), ran.runner)),
        !.seen = Append(st.seen,
                        [nr_alive |-> nr_alive(ran.heap, ran.world),
                         has_cycle |-> has_cycle(ran.runner),
                         cycle_length |-> cycle_length(ran.runner)])]

\* cycle_count = compute_cycle_count(PatchGenerator(size, patch_size), max_gen)
\* up to the for statement, which calls iter() on the generator
InitCycleCount ==
    /\ \E size \in 0 .. MaxSize, patch_size \in 0 .. MaxPatch, max_gen \in -1 .. MaxGen :
          /\ size >= patch_size
          /\ generator = generator_iter(PatchGeneratorInit(size, patch_size))
          /\ cycle_stats = cycle_count_begin(max_gen)
    /\ gen_pc = "iterating"
    /\ yielded = <<>>
    /\ avg_stats = Absent
    /\ NoLife /\ NoTwin /\ NoPatchWorld /\ NoCall /\ NoNotebooks

\* one iteration of the loop of compute_cycle_count: the next world of the
\* generator, its runner, the run and the count
CycleCountIteration ==
    /\ gen_pc = "iterating"
    /\ ~generator_exhausted(generator)
    /\ \E g \in Uninitialized :
         \E res \in {generator_next(generator, g)} :
          \E ran \in {run(res.world.heap, res.world.self,
                          WorldRunnerInit(res.world.heap, res.world.self,
                                          cycle_stats.max_gen, TRUE))} :
            /\ generator' = res.generator
            /\ yielded' = Append(yielded, cells(res.world.heap, res.world.self))
            /\ heap' = ran.heap
            /\ world' = ran.world
            /\ runner' = ran.runner
            /\ pc' = "done"
            /\ cycle_stats' = cycle_count_body(cycle_stats, ran)
    /\ UNCHANGED <<it, gen_pc, avg_stats, twin_vars, patch_vars, call_vars, notebook_vars>>

\* the generator raises StopIteration and compute_cycle_count returns
CycleCountReturn ==
    /\ gen_pc = "iterating"
    /\ generator_exhausted(generator)
    /\ gen_pc' = "StopIteration"
    /\ cycle_stats' = [cycle_stats EXCEPT !.returned = TRUE]
    /\ UNCHANGED <<generator, yielded, life_vars, avg_stats, twin_vars, patch_vars,
                   call_vars, notebook_vars>>

NextCycleCount == CycleCountIteration \/ CycleCountReturn

SpecCycleCount == InitCycleCount /\ [][NextCycleCount]_vars

(***************************************************************************)
(* compute_avg_live_cels(PatchGenerator(size, patch_size), max_gen)        *)
(* nr_alive is a float array; its elements stay whole numbers, and a       *)
(* quotient of the returned array is kept as numerator and denominator,    *)
(* a denominator of 0 standing for the nan or inf numpy returns.           *)
(***************************************************************************)
\* np.zeros(n) for n >= 0, indexed from 1
np_zeros_1d(n) == [k \in 1 .. n |-> 0] @@ <<>>

\* x / d for floats
true_divide(x, d) == [num |-> x, den |-> d]

\* the locals of compute_avg_live_cels before its loop; np.zeros raises
\* ValueError for a negative length
avg_begin(max_gen) ==
    IF max_gen + 1 < 0
    THEN [raised |-> "ValueError", max_gen |-> max_gen]
    ELSE [raised |-> "no", max_gen |-> max_gen,
          nr_alive |-> np_zeros_1d(max_gen + 1), nr_worlds |-> 0,
          generation |-> Absent, seen |-> <<>>,
          returned |-> FALSE, result |-> <<>>]

\* the inner loop of compute_avg_live_cels from index i on:
\* for i, generation in enumerate(history): nr_alive[i] += np.sum(generation)
RECURSIVE accumulate(_, _, _)
accumulate(st, hist, i) ==
    IF i >= Len(hist) THEN st
    ELSE IF i >= Len(st.nr_alive)
         THEN [st EXCEPT !.raised = "IndexError", !.generation = hist[i + 1]]
         ELSE accumulate([st EXCEPT !.nr_alive[i + 1] = @ + np_sum(hist[i + 1]),
                                    !.generation = hist[i + 1]],
                         hist, i + 1)

\* the body of the outer loop, once world_runner.run() has returned ran;
\* seen keeps, for every world, the live cells of each of its generations
avg_body(st, ran) ==
    accumulate([st EXCEPT
                   !.nr_worlds = st.nr_worlds + 1,
                   !.seen = Append(st.seen,
                                   [k \in 1 .. Len(ran.runner.hist) |->
                                       np_sum(ran.runner.hist[k])] @@ <<>>)],
               ran.runner.hist, 0)

\* a divisor that leaves out the number of worlds
avg_divisor_one_world(nr_worlds, generation) ==
    generation.shape[1] * generation.shape[2]

\* nr_worlds*generation.shape[0]*generation.shape[1]
avg_divisor(nr_worlds, generation) ==
    nr_worlds * generation.shape[1] * generation.shape[2]

\* the return statement of compute_avg_live_cels; generation is unbound
\* when the generator yielded no world
avg_return(st) ==
    IF st.nr_worlds = 0 THEN [st EXCEPT !.raised = "NameError"]
    ELSE [st EXCEPT
             !.returned = TRUE,
             !.result = [k \in 1 .. Len(st.nr_alive) |->
                            true_divide(st.nr_alive[k],
                                        avg_divisor(st.nr_worlds, st.generation))]
                        @@ <<>>]

\* stats = compute_avg_live_cels(PatchGenerator(size, patch_size), max_gen)
\* up to the for statement, which calls iter() on the generator
InitAvgLive ==
    /\ \E size \in 0 .. MaxSize, patch_size \in 0 .. MaxPatch, max_gen \in -1 .. MaxGen :
          /\ size >= patch_size
          /\ avg_stats = avg_begin(max_gen)
          /\ generator = IF avg_stats.raised = "no"
                         THEN generator_iter(PatchGeneratorInit(size, patch_size))
                         ELSE PatchGeneratorInit(size, patch_size)
          /\ gen_pc = IF avg_stats.raised = "no" THEN "iterating" ELSE "constructed"
    /\ yielded = <<>>
    /\ cycle_stats = Absent
    /\ NoLife /\ NoTwin /\ NoPatchWorld /\ NoCall /\ NoNotebooks

\* one iteration of the outer loop of compute_avg_live_cels: the next world
\* of the generator, its runner, the run and the sums
AvgLiveIteration ==
    /\ gen_pc = "iterating"
    /\ avg_stats.raised = "no"
    /\ ~generator_exhausted(generator)
    /\ \E g \in Uninitialized :
         \E res \in {generator_next(generator, g)} :
          \E ran \in {run(res.world.heap, res.world.self,
                          WorldRunnerInit(res.world.heap, res.world.self,
                                          avg_stats.max_gen, FALSE))} :
            /\ generator' = res.generator
            /\ yielded' = Append(yielded, cells(res.world.heap, res.world.self))
            /\ heap' = ran.heap
            /\ world' = ran.world
            /\ runner' = ran.runner
            /\ pc' = "done"
            /\ avg_stats' = avg_body(avg_stats, ran)
    /\ UNCHANGED <<it, gen_pc, cycle_stats, twin_vars, patch_vars, call_vars, notebook_vars>>

\* the generator raises StopIteration and compute_avg_live_cels returns
AvgLiveReturn ==
    /\ gen_pc = "iterating"
    /\ avg_stats.raised = "no"
    /\ generator_exhausted(generator)
    /\ gen_pc' = "StopIteration"
    /\ avg_stats' = avg_return(avg_stats)
    /\ UNCHANGED <<generator, yielded, life_vars, cycle_stats, twin_vars, patch_vars,
                   call_vars, notebook_vars>>

NextAvgLive == AvgLiveIteration \/ AvgLiveReturn

SpecAvgLive == InitAvgLive /\ [][NextAvgLive]_vars

(***************************************************************************)
(* naive_exponentiation(A, n) and binary_exponentiation(A, n)              *)
(* Every matrix the two functions handle is a power of A and is kept as    *)
(* its exponent: A is 1, np.eye is 0, and the product of two powers has    *)
(* the sum of their exponents.  expo counts the products as they are made. *)
(***************************************************************************)
\* the argument A, and np.eye(A.shape[0])
MatrixA == 1
np_eye == 0

\* a @ b
matmul(a, b) == a + b

\* a test that takes every bit of n as set
low_bit_always_set(n) == 1

\* n & 1
low_bit(n) == n % 2

\* n >> 1
shift_right_one(n) == n \div 2

\* the locals of naive_exponentiation(A, n) before its loop
naive_begin(n) ==
    [fn |-> "naive", arg |-> n, pc |-> "for", i |-> 0, result |-> np_eye,
     products |-> 0]

\* the locals of binary_exponentiation(A, n) before its while loop
binary_begin(n) ==
    [fn |-> "binary", arg |-> n, pc |-> "while", n |-> n, powers |-> <<>>,
     factors |-> <<>>, factor |-> None, idx |-> 0, result |-> None, k |-> 1,
     iterations |-> 0, squarings |-> 0, products |-> 0]

\* factors.append(factors[-1]@factors[-1] if factors else A)
append_factor(e) ==
    IF e.factors # <<>>
    THEN [e EXCEPT
             !.factors = Append(@, matmul(e.factors[Len(e.factors)],
                                          e.factors[Len(e.factors)])),
             !.squarings = @ + 1]
    ELSE [e EXCEPT !.factors = Append(@, MatrixA)]

\* if n & 1: powers.append(idx)
append_power(e) ==
    IF low_bit(e.n) # 0 THEN [e EXCEPT !.powers = Append(@, e.idx)] ELSE e

\* the rest of the body of the while loop: n >>= 1; idx += 1
shift_and_count(e) ==
    [e EXCEPT !.n = shift_right_one(@), !.idx = @ + 1, !.iterations = @ + 1]

\* the body of the while loop of binary_exponentiation
while_body(e) == shift_and_count(append_power(append_factor(e)))

\* result = factor if result is None else result@factor
multiply_result(e, factor) ==
    IF e.result = None
    THEN [e EXCEPT !.factor = factor, !.result = factor, !.k = @ + 1]
    ELSE [e EXCEPT !.factor = factor, !.result = matmul(@, factor),
                   !.products = @ + 1, !.k = @ + 1]

\* the body of the for loop of binary_exponentiation, for the k-th power
for_body(e) == multiply_result(e, e.factors[e.powers[e.k] + 1])

\* naive_exponentiation(A, n) or binary_exponentiation(A, n) is called
InitExponentiation ==
    /\ \E n \in 0 .. MaxExponent : expo \in {naive_begin(n), binary_begin(n)}
    /\ cannon = Absent /\ io = Absent
    /\ NoLife /\ NoTwin /\ NoGenerator /\ NoPatchWorld /\ NoCall /\ NoStats

\* for _ in range(n): result = result@A
NaiveStep ==
    /\ expo.fn = "naive" /\ expo.pc = "for"
    /\ expo.i < expo.arg
    /\ expo' = [expo EXCEPT !.result = matmul(@, MatrixA), !.products = @ + 1,
                            !.i = @ + 1]
    /\ UNCHANGED <<cannon, io, life_vars, twin_vars, generator_vars, patch_vars,
                   call_vars, stats_vars>>

\* return result
NaiveReturn ==
    /\ expo.fn = "naive" /\ expo.pc = "for"
    /\ ~(expo.i < expo.arg)
    /\ expo' = [expo EXCEPT !.pc = "done"]
    /\ UNCHANGED <<cannon, io, life_vars, twin_vars, generator_vars, patch_vars,
                   call_vars, stats_vars>>

\* one iteration of while n > 0
BinaryWhile ==
    /\ expo.fn = "binary" /\ expo.pc = "while"
    /\ expo.n > 0
    /\ expo' = while_body(expo)
    /\ UNCHANGED <<cannon, io, life_vars, twin_vars, generator_vars, patch_vars,
                   call_vars, stats_vars>>

\* the while loop ends: result = None
BinaryWhileEnd ==
    /\ expo.fn = "binary" /\ expo.pc = "while"
    /\ ~(expo.n > 0)
    /\ expo' = [expo EXCEPT !.pc = "for", !.result = None]
    /\ UNCHANGED <<cannon, io, life_vars, twin_vars, generator_vars, patch_vars,
                   call_vars, stats_vars>>

\* one iteration of for idx in powers
BinaryFor ==
    /\ expo.fn = "binary" /\ expo.pc = "for"
    /\ expo.k <= Len(expo.powers)
    /\ expo' = for_body(expo)
    /\ UNCHANGED <<cannon, io, life_vars, twin_vars, generator_vars, patch_vars,
                   call_vars, stats_vars>>

\* return result
BinaryReturn ==
    /\ expo.fn = "binary" /\ expo.pc = "for"
    /\ ~(expo.k <= Len(expo.powers))
    /\ expo' = [expo EXCEPT !.pc = "done"]
    /\ UNCHANGED <<cannon, io, life_vars, twin_vars, generator_vars, patch_vars,
                   call_vars, stats_vars>>

NextExponentiation ==
    \/ NaiveStep \/ NaiveReturn
    \/ BinaryWhile \/ BinaryWhileEnd \/ BinaryFor \/ BinaryReturn

SpecExponentiation == InitExponentiation /\ [][NextExponentiation]_vars

(***************************************************************************)
(* compute_range(alpha)                                                    *)
(* Lengths are whole numbers of some unit and times whole numbers of       *)
(* delta_t.  What sys.integrate leaves in sys.y and whether it succeeds    *)
(* is the integrator's business: a step moves x forward by one of XSteps,  *)
(* y by one of YSteps, and may fail.                                       *)
(***************************************************************************)
XSteps == {1, 2}
YSteps == {-1, 0, 1}

\* the locals of compute_range before its loop: compute_init_values puts
\* the projectile at x = 0.0, y = 0.0 whatever alpha is, and the integrator
\* is successful until a step fails
range_begin ==
    [pc |-> "loop", successful |-> TRUE, sys_t |-> 0,
     t |-> <<0>>, x |-> <<0>>, y |-> <<0>>, result |-> None]

\* a loop test that asks for a positive height
range_loop_continues_strict(successful, y_last) == successful /\ y_last > 0

\* while sys.successful() and y[-1] >= 0
range_loop_continues(successful, y_last) == successful /\ y_last >= 0

\* the body of the loop, sys.integrate having moved the projectile by
\* (dx, dy) with success flag ok
range_loop_body(c, dx, dy, ok) ==
    [c EXCEPT !.successful = ok,
              !.sys_t = @ + 1,
              !.t = Append(@, c.sys_t + 1),
              !.x = Append(@, py_index(c.x, -1) + dx),
              !.y = Append(@, py_index(c.y, -1) + dy)]

\* 0.5*(a + b), as a quotient
half_sum(a, b) == [num |-> a + b, den |-> 2]

\* return 0.5*(x[-2] + x[-1]); x[-2] raises IndexError on a list of one
range_return(c) ==
    IF Len(c.x) < 2 THEN [c EXCEPT !.pc = "IndexError"]
    ELSE [c EXCEPT !.pc = "returned",
                   !.result = half_sum(py_index(c.x, -2), py_index(c.x, -1))]

\* compute_range(alpha) is called
InitRange ==
    /\ cannon = range_begin
    /\ expo = Absent /\ io = Absent
    /\ NoLife /\ NoTwin /\ NoGenerator /\ NoPatchWorld /\ NoCall /\ NoStats

\* one iteration of the loop of compute_range
RangeIntegrate ==
    /\ cannon.pc = "loop"
    /\ range_loop_continues(cannon.successful, py_index(cannon.y, -1))
    /\ Len(cannon.y) <= MaxSteps
    /\ \E dx \in XSteps, dy \in YSteps, ok \in BOOLEAN :
          cannon' = range_loop_body(cannon, dx, dy, ok)
    /\ UNCHANGED <<expo, io, life_vars, twin_vars, generator_vars, patch_vars,
                   call_vars, stats_vars>>

\* the loop ends and compute_range returns
RangeReturn ==
    /\ cannon.pc = "loop"
    /\ ~range_loop_continues(cannon.successful, py_index(cannon.y, -1))
    /\ cannon' = range_return(cannon)
    /\ UNCHANGED <<expo, io, life_vars, twin_vars, generator_vars, patch_vars,
                   call_vars, stats_vars>>

NextRange == RangeIntegrate \/ RangeReturn

SpecRange == InitRange /\ [][NextRange]_vars

(***************************************************************************)
(* The I/O notebook, its code cells run in order.  io.files maps the name  *)
(* of every file that exists to its contents: the format it was written    *)
(* in and the array written.  A file left by an earlier session holds      *)
(* StaleData.  io.log keeps, for every cell run, the file it used, whether *)
(* the file existed then and whether a cell of this run had written it.    *)
(***************************************************************************)
txt_file_name == "tmp_data.txt"
bin_file_name == "tmp_data.npy"
h5_file_name == "tmp_data.h5"

TempFiles == {txt_file_name, bin_file_name, h5_file_name}

\* the arrays np.random.uniform may draw, and what an old file holds
DataValues == {<<1, 2>>, <<3>>}
StaleData == <<0>>

\* the code cells that use a file, in notebook order: %time and plain
\* cells that write, %timeit cells that read, cells that assign
\* loaded_data, cells that unlink
Cells ==
    << [op |-> "write", file |-> txt_file_name, format |-> "txt"],
       [op |-> "timeit", file |-> txt_file_name, format |-> "txt"],
       [op |-> "load", file |-> txt_file_name, format |-> "txt"],
       [op |-> "timeit", file |-> txt_file_name, format |-> "txt"],
       [op |-> "load", file |-> txt_file_name, format |-> "txt"],
       [op |-> "timeit", file |-> txt_file_name, format |-> "txt"],
       [op |-> "load", file |-> txt_file_name, format |-> "txt"],
       [op |-> "unlink", file |-> txt_file_name, format |-> "txt"],
       [op |-> "write", file |-> bin_file_name, format |-> "npy"],
       [op |-> "timeit", file |-> bin_file_name, format |-> "npy"],
       [op |-> "load", file |-> bin_file_name, format |-> "npy"],
       [op |-> "unlink", file |-> bin_file_name, format |-> "npy"],
       [op |-> "write", file |-> h5_file_name, format |-> "h5"],
       [op |-> "timeit", file |-> h5_file_name, format |-> "h5"],
       [op |-> "load", file |-> h5_file_name, format |-> "h5"],
       [op |-> "unlink", file |-> h5_file_name, format |-> "h5"] >>

\* np.savetxt, np.save, h5.File(name, 'w') with create_dataset: the file
\* is created or replaced
write_file(files, name, format, data) ==
    [f \in DOMAIN files \cup {name} |->
        IF f = name THEN [format |-> format, data |-> data] ELSE files[f]] @@ <<>>

\* np.loadtxt, np.fromfile, np.genfromtxt, np.load, h5.File(name, 'r'):
\* the array read, or the exception
read_file(files, name, format) ==
    IF name \notin DOMAIN files THEN [raised |-> "FileNotFoundError"]
    ELSE IF files[name].format # format THEN [raised |-> "ValueError"]
    ELSE [raised |-> "no", data |-> files[name].data]

\* an unlink that leaves the file where it is
unlink_keeps_file(files, name) == files

\* pathlib.Path(name).unlink() on a file that exists
unlink(files, name) == [f \in DOMAIN files \ {name} |-> files[f]] @@ <<>>

\* the entry of io.log for the cell about to run
log_entry(st) ==
    [cell |-> st.cell, op |-> Cells[st.cell].op, file |-> Cells[st.cell].file,
     existed |-> Cells[st.cell].file \in DOMAIN st.files,
     written |-> Cells[st.cell].file \in st.written]

\* a cell has run: the log, and the next cell unless the cell raised
cell_done(st, raised) ==
    [st EXCEPT !.log = Append(@, log_entry(st)),
               !.raised = raised,
               !.cell = IF raised = "no" THEN @ + 1 ELSE @]

\* the kernel after data = np.random.uniform(...), in a directory where
\* some of the temporary files may be left from an earlier session
InitIO ==
    /\ \E data \in DataValues, old \in SUBSET TempFiles :
          io = [cell |-> 1, data |-> data, loaded_data |-> Absent,
                files |-> [f \in old |-> [format |-> "txt", data |-> StaleData]] @@ <<>>,
                written |-> {}, raised |-> "no", log |-> <<>>]
    /\ expo = Absent /\ cannon = Absent
    /\ NoLife /\ NoTwin /\ NoGenerator /\ NoPatchWorld /\ NoCall /\ NoStats

\* the next cell to run is of kind op
NextCellIs(op) ==
    /\ io.raised = "no"
    /\ io.cell <= Len(Cells)
    /\ Cells[io.cell].op = op

\* a cell that writes data to its file
WriteCell ==
    /\ NextCellIs("write")
    /\ io' = [cell_done(io, "no") EXCEPT
                 !.files = write_file(io.files, Cells[io.cell].file,
                                      Cells[io.cell].format, io.data),
                 !.written = @ \cup {Cells[io.cell].file}]
    /\ UNCHANGED <<expo, cannon, life_vars, twin_vars, generator_vars, patch_vars,
                   call_vars, stats_vars>>

\* a %timeit cell that reads its file and keeps nothing
TimeitCell ==
    /\ NextCellIs("timeit")
    /\ \E res \in {read_file(io.files, Cells[io.cell].file, Cells[io.cell].format)} :
          io' = cell_done(io, res.raised)
    /\ UNCHANGED <<expo, cannon, life_vars, twin_vars, generator_vars, patch_vars,
                   call_vars, stats_vars>>

\* a cell that reads its file into loaded_data
LoadCell ==
    /\ NextCellIs("load")
    /\ \E res \in {read_file(io.files, Cells[io.cell].file, Cells[io.cell].format)} :
          io' = IF res.raised = "no"
                THEN [cell_done(io, "no") EXCEPT !.loaded_data = res.data]
                ELSE cell_done(io, res.raised)
    /\ UNCHANGED <<expo, cannon, life_vars, twin_vars, generator_vars, patch_vars,
                   call_vars, stats_vars>>

\* a cell that deletes its file; unlink raises when the file is missing
UnlinkCell ==
    /\ NextCellIs("unlink")
    /\ io' = IF Cells[io.cell].file \in DOMAIN io.files
             THEN [cell_done(io, "no") EXCEPT
                      !.files = unlink(io.files, Cells[io.cell].file)]
             ELSE cell_done(io, "FileNotFoundError")
    /\ UNCHANGED <<expo, cannon, life_vars, twin_vars, generator_vars, patch_vars,
                   call_vars, stats_vars>>

NextIO == WriteCell \/ TimeitCell \/ LoadCell \/ UnlinkCell

SpecIO == InitIO /\ [][NextIO]_vars

(***************************************************************************)
(* Claims                                                                  *)
(***************************************************************************)
\* the array the World's _world attribute names
Current == heap[world.world]

\* the eight offsets of a cell's neighbours
NeighbourOffsets == {d \in {-1, 0, 1} \X {-1, 0, 1} : d # <<0, 0>>}

\* the cell at offset d of (i, j) on the torus of a's shape
TorusCell(a, i, j, d) ==
    <<(i + d[1] + a.shape[1]) % a.shape[1], (j + d[2] + a.shape[2]) % a.shape[2]>>

\* the number of offsets at which (i, j) has a live cell in a
LiveNeighbours(a, i, j) ==
    Cardinality({d \in NeighbourOffsets : a.at[TorusCell(a, i, j, d)] = 1})

\* Conway's rule applied to every cell of a at once
ConwayStep(a) ==
    Array(a.shape[1], a.shape[2],
          [p \in DOMAIN a.at |->
              IF a.at[p] = 1
              THEN (IF LiveNeighbours(a, p[1], p[2]) \in {2, 3} THEN 1 ELSE 0)
              ELSE (IF LiveNeighbours(a, p[1], p[2]) = 3 THEN 1 ELSE 0)])

\* some generation of the history equals an earlier one
Repeats(hist) ==
    \E g \in 1 .. Len(hist) : \E k \in 1 .. g - 1 : hist[g] = hist[k]

\* C1: every generation the runner appended is Conway's rule applied
\* synchronously to the generation before it, however many calls of
\* next_generation came earlier.
C1_SynchronousRule ==
    \A k \in 1 .. Len(runner.hist) - 1 :
        runner.hist[k + 1] = ConwayStep(runner.hist[k])

\* the set of the index pairs in the sequence nb
IndexSet(nb) == {nb[k] : k \in 1 .. Len(nb)}

\* C2: nr_neignbours(i, j) reads the eight torus positions around (i, j)
\* and returns how many of them are alive, a number in 0..8; with at least
\* three rows and three columns the eight positions are distinct and none
\* is the cell itself.
C2_NeighbourCount ==
    nb_call.made =>
        /\ Len(nb_call.indices) = 8
        /\ \A k \in 1 .. 8 : nb_call.indices[k] \in DOMAIN Current.at
        /\ IndexSet(nb_call.indices) =
              {TorusCell(Current, nb_call.i, nb_call.j, d) : d \in NeighbourOffsets}
        /\ nb_call.result = LiveNeighbours(Current, nb_call.i, nb_call.j)
        /\ nb_call.result \in 0 .. 8
        /\ (Current.shape[1] >= 3 /\ Current.shape[2] >= 3)
              => /\ Cardinality(IndexSet(nb_call.indices)) = 8
                 /\ <<nb_call.i, nb_call.j>> \notin IndexSet(nb_call.indices)

\* a call at a corner of a 3 x 3 world, after a generation was computed,
\* that counts eight live neighbours
C2_Witness ==
    /\ nb_call.made
    /\ world.world = world.tmp_world
    /\ Current.shape = <<3, 3>>
    /\ nb_call.i = 0 /\ nb_call.j = 2
    /\ nb_call.result = 8

\* C3: with early stopping, no generation before the newest one repeats an
\* earlier generation (the run stopped at the first repetition), and a run
\* that returned before max_gen stopped on a repetition.
C3_StopsAtFirstCycle ==
    runner.early_stopping =>
        /\ \A g \in 2 .. Len(runner.hist) - 1 :
              \A k \in 1 .. g - 1 : runner.hist[g] # runner.hist[k]
        /\ (pc = "done" /\ nr_generations(runner) < runner.max_gen)
              => Repeats(runner.hist)

\* C4: before run() no cycle is reported; after run() a cycle is reported
\* exactly when some generation of the history equals an earlier one.
C4_CycleIffRepeat ==
    /\ pc = "constructed"
          => (~has_cycle(runner) /\ cycle_length(runner) = None)
    /\ pc = "done" => (has_cycle(runner) <=> Repeats(runner.hist))

\* C5: a reported cycle length is at least 1, the newest generation equals
\* the one that many generations before it, and no generation at a smaller
\* positive distance equals the newest one.
C5_CycleLength ==
    has_cycle(runner) =>
        LET n == Len(runner.hist)
            cl == cycle_length(runner)
        IN /\ cl >= 1
           /\ cl < n
           /\ runner.hist[n] = runner.hist[n - cl]
           /\ \A d \in 1 .. cl - 1 : runner.hist[n] # runner.hist[n - d]

\* a cycle longer than one generation was detected
C5_Witness == has_cycle(runner) /\ cycle_length(runner) >= 2

C7_NoEarlyStopping ==
    (pc = "done" /\ ~runner.early_stopping) =>
        /\ Len(runner.hist) = runner.max_gen + 1
        /\ Repeats(runner.hist) => has_cycle(runner)

\* C8: two Worlds constructed from equal cells and advanced by the same
\* number of next_generation calls have equal cells, and their runners,
\* given the same max_gen and early_stopping, have equal history, number of
\* generations and cycle length.
C8_Deterministic ==
    /\ cells(heap, world) = cells(twin_heap, twin_world)
    /\ runner.hist = twin_runner.hist
    /\ nr_generations(runner) = nr_generations(twin_runner)
    /\ cycle_length(runner) = cycle_length(twin_runner)
    /\ pc = twin_pc

\* both runs returned after at least two generations, having started from
\* different contents of _tmp_world
C8_Witness ==
    /\ pc = "done" /\ twin_pc = "done"
    /\ nr_generations(runner) >= 2
    /\ np_sum(cells(heap, world)) > 0

\* bit b of k is set
BitSet(k, b) == (k \div pow2(b)) % 2 = 1

\* the world of side n whose top-left patch of side p spells k, one cell
\* per bit in row-major order, every other cell dead
PatchNumberWorld(n, p, k) ==
    Array(n, n, [q \in Idx(n, n) |->
                    IF q[1] < p /\ q[2] < p /\ BitSet(k, q[1] * p + q[2])
                    THEN 1 ELSE 0])

\* C9: the generator yields the worlds numbered 0, 1, ... in order, the
\* k-th having cell (i, j) of its patch alive iff bit i*p + j of k is set
\* and every cell outside the patch dead; the worlds yielded are pairwise
\* distinct; StopIteration comes after exactly 2^(p*p) worlds, which then
\* cover every combination of the patch.
C9_AllPatches ==
    gen_pc \in {"iterating", "StopIteration"} =>
        LET n == generator.size
            p == generator.patch_size
        IN /\ Len(yielded) = generator.patch_idx
           /\ Len(yielded) <= pow2(p * p)
           /\ \A k \in 1 .. Len(yielded) : yielded[k] = PatchNumberWorld(n, p, k - 1)
           /\ Cardinality({yielded[k] : k \in 1 .. Len(yielded)}) = Len(yielded)
           /\ gen_pc = "StopIteration" =>
                /\ Len(yielded) = pow2(p * p)
                /\ \A f \in [Idx(p, p) -> {0, 1}] :
                      \E k \in 1 .. Len(yielded) :
                          \A q \in Idx(p, p) : yielded[k].at[q] = f[q]

\* a generator of 2 x 2 patches in a larger world, exhausted
C9_Witness ==
    /\ gen_pc = "StopIteration"
    /\ generator.patch_size = 2
    /\ generator.size > 2
    /\ Len(yielded) = 16

\* C10: PatchWorld(n, patch) is an n x n world that equals the patch on the
\* patch's rows and columns and is dead everywhere else.
C10_PatchWorld ==
    pw_pc = "constructed" =>
        LET a == cells(pw_world.heap, pw_world.self)
        IN /\ a.shape = <<pw_n, pw_n>>
           /\ DOMAIN a.at = Idx(pw_n, pw_n)
           /\ \A q \in Idx(pw_n, pw_n) :
                 a.at[q] = IF q[1] < pw_patch.shape[1] /\ q[2] < pw_patch.shape[2]
                           THEN pw_patch.at[q] ELSE 0

\* a world built from a patch of two rows and one column with a live cell,
\* smaller than the world
C10_Witness ==
    /\ pw_pc = "constructed"
    /\ pw_patch.shape = <<2, 1>>
    /\ pw_n > 2
    /\ np_sum(pw_patch) >= 1
    /\ np_sum(cells(pw_world.heap, pw_world.self)) = np_sum(pw_patch)

\* C11: PatchGenerator(size, patch_size) raises ValueError exactly when
\* size < patch_size; with patch_size <= size, equality included, it is
\* constructed without error; a generator whose patch is larger than the
\* world never yields a world.
C11_ValueError ==
    /\ gen_pc = "ValueError" <=> generator.size < generator.patch_size
    /\ generator.patch_size <= generator.size
          => /\ gen_pc \in {"constructed", "iterating", "StopIteration"}
             /\ generator.raised = "no"
    /\ generator.size < generator.patch_size => yielded = <<>>
    /\ gen_pc = "ValueError" => ~ENABLED NextGenerator

\* a constructor call with the patch one larger than the world has raised
C11_Witness ==
    /\ gen_pc = "ValueError"
    /\ generator.raised = "ValueError"
    /\ generator.patch_size = generator.size + 1
    /\ generator.size >= 1

\* the category the claim gives a world of which e was seen after its run
Category(e) ==
    IF e.nr_alive = 0 THEN DeadKey
    ELSE IF e.has_cycle THEN CycleKey(e.cycle_length)
    ELSE NoCycleKey

\* the number of live cells of array a, counted cell by cell
LiveCells(a) == Cardinality({q \in DOMAIN a.at : a.at[q] # 0})

\* C12: compute_cycle_count counts every world the generator yielded in
\* exactly one category, so the counts sum to the number of worlds: 'dead'
\* exactly when the world has no live cell at the end of its run, otherwise
\* the detected cycle length when the runner reports a cycle, otherwise
\* 'no cycle'.
C12_OneCategoryPerWorld ==
    LET st == cycle_stats
        n == Len(st.seen)
        keys == [k \in 1 .. n |-> Category(st.seen[k])]
    IN /\ st.nr_worlds = Len(yielded)
       /\ n = st.nr_worlds
       /\ BagCardinality(st.cycle_count) = st.nr_worlds
       /\ \A key \in BagToSet(st.cycle_count) \cup {keys[k] : k \in 1 .. n} :
             CopiesIn(key, st.cycle_count) = Cardinality({k \in 1 .. n : keys[k] = key})
       /\ n > 0 =>
             /\ st.seen[n].nr_alive = LiveCells(Current)
             /\ st.seen[n].has_cycle = (runner.cycle_length # None)
             /\ st.seen[n].has_cycle => st.seen[n].cycle_length = runner.cycle_length
             /\ Current = runner.hist[Len(runner.hist)]
       /\ st.returned =>
             st.nr_worlds = pow2(generator.patch_size * generator.patch_size)

\* the count has returned with worlds in all three categories, one of them
\* a world that has a cycle and is counted as dead
C12_Witness ==
    /\ cycle_stats.returned
    /\ cycle_stats.nr_worlds = 16
    /\ BagIn(DeadKey, cycle_stats.cycle_count)
    /\ BagIn(NoCycleKey, cycle_stats.cycle_count)
    /\ \E n \in 1 .. MaxGen : BagIn(CycleKey(n), cycle_stats.cycle_count)
    /\ \E k \in 1 .. Len(cycle_stats.seen) :
          cycle_stats.seen[k].nr_alive = 0 /\ cycle_stats.seen[k].has_cycle

\* the live cells of generation i (from 1) summed over the first n worlds
RECURSIVE TotalAlive(_, _, _)
TotalAlive(seen, i, n) ==
    IF n = 0 THEN 0 ELSE seen[n][i] + TotalAlive(seen, i, n - 1)

\* a quotient that is a number between 0 and 1
InUnitInterval(q) == q.den > 0 /\ 0 <= q.num /\ q.num <= q.den

\* what C13 says of a call of compute_avg_live_cels: no write outside
\* nr_alive, and an array of max_gen + 1 averages between 0 and 1 returned
AvgLiveCells(st) ==
    /\ st.raised = "no"
    /\ Len(st.nr_alive) = st.max_gen + 1
    /\ Len(st.seen) = st.nr_worlds
    /\ st.nr_worlds > 0 =>
          /\ Len(st.seen[st.nr_worlds]) = Len(runner.hist)
          /\ \A i \in 1 .. Len(runner.hist) :
                st.seen[st.nr_worlds][i] = LiveCells(runner.hist[i])
    /\ st.returned =>
          /\ st.nr_worlds = Len(yielded)
          /\ Len(st.result) = st.max_gen + 1
          /\ \A i \in 1 .. Len(st.result) :
                /\ \A n \in 1 .. st.nr_worlds : Len(st.seen[n]) >= i
                /\ st.result[i].num = TotalAlive(st.seen, i, st.nr_worlds)
                /\ st.result[i].den = st.nr_worlds * generator.size * generator.size
                /\ InUnitInterval(st.result[i])

\* C13 as stated: for a generator that yields at least one world, all of
\* one shape, compute_avg_live_cels returns max_gen + 1 entries, entry i
\* the live cells of generation i over all worlds divided by (number of
\* worlds x cells per world); every write nr_alive[i] is within bounds and
\* every entry lies in [0, 1].
C13_AvgLiveCells == AvgLiveCells(avg_stats)

\* C13 amended: the same, for max_gen >= 0 and worlds of at least one cell.
C13_AvgLiveCellsAmended ==
    (avg_stats.max_gen >= 0 /\ generator.size >= 1) => AvgLiveCells(avg_stats)

\* sixteen worlds of 2 x 2 patches averaged over three generations or
\* more, the first average strictly between 0 and 1
C13_Witness ==
    /\ avg_stats.raised = "no"
    /\ avg_stats.returned
    /\ avg_stats.max_gen >= 2
    /\ avg_stats.nr_worlds = 16
    /\ generator.size >= 3
    /\ avg_stats.result[1].num > 0
    /\ avg_stats.result[1].num < avg_stats.result[1].den
    /\ avg_stats.result[avg_stats.max_gen + 1].num > 0

\* floor(log2 n) for n >= 1
FloorLog2(n) == CHOOSE k \in 0 .. n : pow2(k) <= n /\ n < pow2(k + 1)

\* the number of bits set in n
PopCount(n) == Cardinality({b \in 0 .. n : BitSet(n, b)})

\* C14: binary_exponentiation(A, n) for n >= 1 makes exactly floor(log2 n)
\* squarings and popcount(n) - 1 products, at most 2*floor(log2 n)
\* multiplications in all (5 for n = 13), and its while loop ends after
\* floor(log2 n) + 1 iterations; naive_exponentiation(A, n) makes exactly
\* n multiplications.
C14_Multiplications ==
    /\ (expo.fn = "binary" /\ expo.arg >= 1) =>
          /\ expo.iterations <= FloorLog2(expo.arg) + 1
          /\ expo.pc = "while" => (expo.n > 0 <=> expo.iterations <= FloorLog2(expo.arg))
          /\ expo.pc # "while" =>
                /\ expo.iterations = FloorLog2(expo.arg) + 1
                /\ expo.squarings = FloorLog2(expo.arg)
          /\ expo.pc = "done" =>
                /\ expo.products = PopCount(expo.arg) - 1
                /\ expo.squarings + expo.products <= 2 * FloorLog2(expo.arg)
                /\ expo.arg = 13 => expo.squarings + expo.products = 5
                /\ expo.result = expo.arg
    /\ (expo.fn = "naive" /\ expo.pc = "done") =>
          /\ expo.products = expo.arg
          /\ expo.result = expo.arg

\* binary_exponentiation(A, 13) has returned
C14_Witness ==
    /\ expo.fn = "binary"
    /\ expo.pc = "done"
    /\ expo.arg = 13
    /\ expo.squarings = 3
    /\ expo.products = 2

\* the first sample with y < 0 and the last sample with y >= 0
FirstBelow(y) ==
    CHOOSE k \in 1 .. Len(y) : y[k] < 0 /\ \A j \in 1 .. k - 1 : y[j] >= 0
LastAbove(y) ==
    CHOOSE k \in 1 .. Len(y) : y[k] >= 0 /\ \A j \in k + 1 .. Len(y) : y[j] < 0

\* C15: the loop of compute_range makes at least one step, so x[-2]
\* exists at the return; when the integrator stays successful the loop
\* ends at the first sample with y < 0, and the value returned is the
\* midpoint of the x of the last sample with y >= 0 and the x of that
\* first sample with y < 0.
C15_RangeMidpoint ==
    /\ cannon.pc # "IndexError"
    /\ cannon.pc = "returned" => Len(cannon.x) >= 2 /\ Len(cannon.y) = Len(cannon.x)
    /\ (cannon.pc = "returned" /\ cannon.successful) =>
          /\ \E k \in 1 .. Len(cannon.y) : cannon.y[k] < 0
          /\ FirstBelow(cannon.y) = Len(cannon.y)
          /\ LastAbove(cannon.y) = Len(cannon.y) - 1
          /\ cannon.result.den = 2
          /\ cannon.result.num = cannon.x[LastAbove(cannon.y)]
                                   + cannon.x[FirstBelow(cannon.y)]

\* a trajectory of three steps or more that rose, came down below 0 with
\* the integrator successful, and whose range was returned
C15_Witness ==
    /\ cannon.pc = "returned"
    /\ cannon.successful
    /\ Len(cannon.y) >= 4
    /\ \E k \in 1 .. Len(cannon.y) : cannon.y[k] > 0
    /\ cannon.y[Len(cannon.y)] < 0
    /\ cannon.result.num = cannon.x[Len(cannon.x) - 1] + cannon.x[Len(cannon.x)]

\* C16: with the cells run in order, each temporary file is written
\* before any read of it, is read only while it exists, and is deleted at
\* the end of its section (no cell uses it afterwards); no temporary file
\* exists after the last cell.
C16_TempFiles ==
    /\ io.raised = "no"
    /\ \A k \in 1 .. Len(io.log) :
          /\ io.log[k].op \in {"timeit", "load"} =>
                io.log[k].existed /\ io.log[k].written
          /\ io.log[k].op = "unlink" =>
                /\ io.log[k].existed
                /\ io.log[k].file \notin DOMAIN io.files
                /\ \A j \in k + 1 .. Len(io.log) : io.log[j].file # io.log[k].file
    /\ io.loaded_data # Absent => io.loaded_data = io.data
    /\ io.cell > Len(Cells) =>
          /\ DOMAIN io.files \cap TempFiles = {}
          /\ \A f \in TempFiles :
                \E k \in 1 .. Len(io.log) : io.log[k].op = "unlink" /\ io.log[k].file = f

\* every cell has run in a directory that held all three files before
C16_Witness ==
    /\ io.cell = Len(Cells) + 1
    /\ Len(io.log) = Len(Cells)
    /\ \A k \in {1, 9, 13} : io.log[k].op = "write" /\ io.log[k].existed
    /\ io.files = <<>>

====
